---- MODULE Spec2Model ----
(***************************************************************************)
(* Model of the protocol transaction layer of BiometricDeviceMiddleware    *)
(* (src/biometric_middleware.py): _send_request, the paginated fetch-all   *)
(* operations built on it, and the uuid-based correlation ids.             *)
(*                                                                         *)
(* Python values are tagged records: None, str, int, list and dict.  A     *)
(* dict is a function from the keys it holds to Python values, so an       *)
(* absent key and a key holding None are different things, as they are     *)
(* for dict.get.                                                           *)
(***************************************************************************)
EXTENDS Integers, Sequences, FiniteSets, TLC

VARIABLES
    api_key,        \* self.api_key
    timeout,        \* self.timeout
    session_timeout,\* the attribute the constructor sets on the requests.Session
    op,             \* the public operation the caller is running
    pc,             \* "idle", "call" (about to enter _send_request),
                    \* "waiting" (inside session.post), "sleeping" (inside
                    \* time.sleep), "done"
    message_id,     \* _send_request's local message_id
    request,        \* the request handed to session.post
    posts,          \* session.post calls made by the current operation
    response,       \* what session.post came back with
    outcome,        \* how the last _send_request ended
    all_items,      \* all_user_ids / all_logs of the fetch-all loop
    start_pos,      \* start_pos of the fetch-all loop
    sends,          \* _send_request calls made by the current operation
    page_items,     \* history: the item list of every page fetched successfully
    page_next,      \* history: the next-position value of the last page fetched
    ret,            \* how the public operation ended
    new_key,        \* set_security_config's api_key argument
    argument,       \* the argument a range-checked setter was called with
    now,            \* time.time(), counted from the call of the operation
    start_time,     \* wait_for_enrollment_completion's start_time
    wait_timeout,   \* wait_for_enrollment_completion's timeout argument
    poll_interval,  \* wait_for_enrollment_completion's poll_interval argument
    sleeps,         \* time.sleep calls made by the current operation
    pendings,       \* history: polls that came back with state "pending"
    cancelled,      \* the caller has asked for the wait to be cancelled
    flight,         \* concurrent callers: each caller's transaction
    wire            \* concurrent callers: responses the device has produced

vars == <<api_key, timeout, session_timeout, op, pc, message_id, request, posts,
          response, outcome, all_items, start_pos, sends, page_items,
          page_next, ret, new_key, argument, now, start_time, wait_timeout,
          poll_interval, sleeps, pendings, cancelled, flight, wire>>

(***************************************************************************)
(* Bounds of the model.                                                    *)
(***************************************************************************)
MaxPages == 3       \* page fetches one fetch-all operation may make
MaxCalls == 2       \* concurrent callers sharing one client
MaxLatency == 1     \* longest time one session.post takes to come back

(***************************************************************************)
(* Python values.                                                          *)
(***************************************************************************)
PyNone == [t |-> "none"]
PyStr(s) == [t |-> "str", v |-> s]
PyInt(n) == [t |-> "int", v |-> n]
PyList(s) == [t |-> "list", v |-> s]
PyDict(m) == [t |-> "dict", v |-> m]
EmptyDict == PyDict(<<>>)
PyTrue == [t |-> "bool", v |-> TRUE]

\* d.get(k, default) of a dict d
DictGet(d, k, default) == IF k \in DOMAIN d.v THEN d.v[k] ELSE default

\* x.get(...) where x may be anything json.loads returns: only a dict has .get
HasGet(x) == x.t = "dict"

\* The dicts over `keys` whose values are drawn from vals[k]
DictsOver(keys, vals) ==
    LET all == UNION {vals[k] : k \in keys}
    IN  UNION {{PyDict(f) : f \in {g \in [h -> all] : \A k \in h : g[k] \in vals[k]}}
               : h \in SUBSET keys}

(***************************************************************************)
(* Outcomes of a call: a returned value or a raised exception.             *)
(***************************************************************************)
NoOutcome == [kind |-> "none"]
Return(v) == [kind |-> "return", v |-> v]

\* BiometricDeviceError(message, error_code=None, arguments=None)
BiometricDeviceError(msg, error_code, arguments) ==
    [kind |-> "raise", exc |-> "BiometricDeviceError", msg |-> msg,
     error_code |-> error_code, arguments |-> arguments]

\* Any other exception: it has no error_code and no arguments
Raise(exc) ==
    [kind |-> "raise", exc |-> exc, msg |-> "", error_code |-> PyNone,
     arguments |-> PyNone]

(***************************************************************************)
(* The public operations modelled, their commands and their result keys.   *)
(***************************************************************************)
PassThroughOps == {"get_version_info"}
FetchAllOps == {"get_all_user_ids", "get_all_attend_logs"}
WaitOps == {"wait_for_enrollment_completion"}
SecurityOps == {"set_security_config"}
SetterOps == {"config_attend_log_uploader", "set_device_id",
              "set_sound_volume", "set_verify_mode", "device_control"}
Ops == PassThroughOps \cup FetchAllOps \cup WaitOps \cup SecurityOps
           \cup SetterOps

\* the command each operation hands to _send_request
OpCommand(o) ==
    CASE o = "get_version_info" -> "GetVersionInfo"
      [] o = "get_all_user_ids" -> "GetUserIdList"
      [] o = "get_all_attend_logs" -> "GetAttendLog"
      [] o = "wait_for_enrollment_completion" -> "QueryJobStatus"
      [] o = "set_security_config" -> "SetSecurityConfig"
      [] o = "config_attend_log_uploader" -> "ConfigAttendLogUploader"
      [] o = "set_device_id" -> "SetDeviceId"
      [] o = "set_sound_volume" -> "SetSoundVolume"
      [] o = "set_verify_mode" -> "SetVerifyMode"
      [] o = "device_control" -> "DeviceControl"

\* result.get("user_id", []) / result.get("logs", [])
ItemsKey(o) == IF o = "get_all_user_ids" THEN "user_id" ELSE "logs"

\* result.get("next_page_pos") / result.get("next_pos")
NextKey(o) == IF o = "get_all_user_ids" THEN "next_page_pos" ELSE "next_pos"

(***************************************************************************)
(* What the transport and the device can answer.                           *)
(***************************************************************************)
\* str(uuid.uuid4())[:8]: eight hex digits of a random uuid
MessageIds == {"0a1b2c3d", "9f8e7d6c"}

\* _generate_message_id: any of the ids, whatever ids other calls hold
GenerateMessageId == MessageIds

ItemLists == {PyList(<<>>), PyList(<<1, 2>>), PyList(<<3>>), PyNone}
Cursors == {PyInt(0), PyInt(5), PyStr(""), PyNone}

ErrorDicts ==
    DictsOver({"code", "arguments"},
              [code |-> {PyStr("dup_id"), PyNone},
               arguments |-> {PyList(<<>>), PyList(<<"42">>), PyNone}])

\* the status dictionaries QueryJobStatus can come back with: a state, known
\* or not, and the job's completion data beside it
JobStatusDicts ==
    DictsOver({"state", "x"},
              [state |-> {PyStr("pending"), PyStr("succeeded"), PyStr("failed"),
                          PyStr("running"), PyNone},
               x |-> {PyInt(1), PyInt(2)}])

ResultDicts(cmd) ==
    CASE cmd = "GetUserIdList" ->
            DictsOver({"user_id", "next_page_pos"},
                      [user_id |-> ItemLists, next_page_pos |-> Cursors])
      [] cmd = "GetAttendLog" ->
            DictsOver({"logs", "next_pos"},
                      [logs |-> ItemLists, next_pos |-> Cursors])
      [] cmd = "QueryJobStatus" -> JobStatusDicts
      [] OTHER ->
            DictsOver({"firmware_version"},
                      [firmware_version |-> {PyStr("1.0")}])

\* the "payload" values of a response to command cmd
Payloads(cmd) == {PyNone, PyList(<<>>)} \cup ErrorDicts \cup ResultDicts(cmd)

\* the JSON objects a response body can hold
Envelopes(cmd) ==
    DictsOver({"mid", "result", "payload"},
              [mid |-> {PyNone} \cup {PyStr(m) : m \in MessageIds},
               result |-> {PyNone, PyStr("Success"), PyStr("Error")},
               payload |-> Payloads(cmd)])

\* JSON documents that are not objects
NonObjects == {PyNone, PyList(<<>>), PyStr("ok")}

\* What session.post and response.json() come back with.  status is "ok" or
\* the requests exception raised by post / raise_for_status; json_exc is the
\* exception response.json() raises on a body that is not JSON ("none" when
\* the body parses): requests.JSONDecodeError, a RequestException, in
\* requests >= 2.27 and json.JSONDecodeError before; data is the parsed body.
Answer(status, json_exc, data) ==
    [status |-> status, json_exc |-> json_exc, data |-> data]

NoAnswer == Answer("none", "none", PyNone)

\* requests applies the timeout passed to the call; None means wait forever
TransportAnswers(req) ==
    {Answer(s, "none", PyNone) : s \in {"ConnectionError", "SSLError", "HTTPError"}}
    \cup (IF req.timeout # PyNone
           THEN {Answer("Timeout", "none", PyNone)} ELSE {})
    \cup {Answer("ok", e, PyNone)
            : e \in {"requests.JSONDecodeError", "json.JSONDecodeError"}}
    \cup {Answer("ok", "none", d)
            : d \in NonObjects \cup Envelopes(req.json.v.cmd.v)}

(***************************************************************************)
(* The client.                                                             *)
(***************************************************************************)
\* __init__'s default for timeout
DefaultTimeout == 30

\* Python truthiness of an optional string: None and "" are false
Truthy(x) == x # PyNone /\ x # PyStr("")

\* _get_base_url: the api_key query parameter is added when api_key is truthy
GetBaseUrl(key) ==
    [path |-> "/control", api_key |-> IF Truthy(key) THEN key ELSE PyNone]

\* request_data of _send_request
RequestData(mid, cmd, payload) ==
    PyDict([mid |-> PyStr(mid), cmd |-> PyStr(cmd), payload |-> payload])

\* The timeout of the session.post call: the call passes url, json and
\* headers and no timeout, and requests merges no session attribute into it
\* (session.timeout is not a setting of requests.Session), so it is None.
PostTimeout(client_timeout, session_attr) == PyNone

\* self.session.post(self._get_base_url(), json=request_data, headers=...)
Post(key, data, client_timeout, session_attr) ==
    [url |-> GetBaseUrl(key), json |-> data,
     timeout |-> PostTimeout(client_timeout, session_attr)]

NoRequest == Post(PyNone, EmptyDict, 0, PyNone)

\* A mismatch check that lets a response without a mid through
MidMismatchIfPresent(data, mid) ==
    "mid" \in DOMAIN data.v /\ data.v.mid # PyStr(mid)

\* response_data.get("mid") != message_id
MidMismatch(data, mid) == DictGet(data, "mid", PyNone) # PyStr(mid)

\* response_data.get("result") == "Error"
IsErrorResult(data) == DictGet(data, "result", PyNone) = PyStr("Error")

\* An error mapping that drops the device's arguments
MapErrorNoArguments(data) ==
    LET error_payload == DictGet(data, "payload", EmptyDict)
    IN  IF ~HasGet(error_payload) THEN Raise("AttributeError")
        ELSE BiometricDeviceError("Device error",
                 DictGet(error_payload, "code", PyStr("unknown_error")),
                 PyList(<<>>))

\* An error mapping that defaults both fields as soon as the code is absent
MapErrorDefaultsTogether(data) ==
    LET error_payload == DictGet(data, "payload", EmptyDict)
    IN  IF ~HasGet(error_payload) THEN Raise("AttributeError")
        ELSE IF "code" \notin DOMAIN error_payload.v
             THEN BiometricDeviceError("Device error", PyStr("unknown_error"),
                                       PyList(<<>>))
             ELSE BiometricDeviceError("Device error", error_payload.v.code,
                      DictGet(error_payload, "arguments", PyList(<<>>)))

\* The Error branch: error_payload.get on something that is no dict raises
\* AttributeError, which no except clause of _send_request catches.
MapError(data) ==
    LET error_payload == DictGet(data, "payload", EmptyDict)
    IN  IF ~HasGet(error_payload) THEN Raise("AttributeError")
        ELSE BiometricDeviceError("Device error",
                 DictGet(error_payload, "code", PyStr("unknown_error")),
                 DictGet(error_payload, "arguments", PyList(<<>>)))

\* return response_data.get("payload", {})
SuccessPayload(data) == DictGet(data, "payload", EmptyDict)

\* except requests.RequestException / except json.JSONDecodeError
IsRequestException(exc) == exc # "json.JSONDecodeError"

\* A _send_request that inspects the result before it compares the mids
SendRequestOutcomeErrorFirst(mid, ans) ==
    IF ans.status # "ok" THEN
        BiometricDeviceError("Request failed", PyNone, PyNone)
    ELSE IF ans.json_exc # "none" THEN
        IF IsRequestException(ans.json_exc)
        THEN BiometricDeviceError("Request failed", PyNone, PyNone)
        ELSE BiometricDeviceError("Invalid JSON response", PyNone, PyNone)
    ELSE IF ~HasGet(ans.data) THEN Raise("AttributeError")
    ELSE IF IsErrorResult(ans.data) THEN MapError(ans.data)
    ELSE IF MidMismatch(ans.data, mid) THEN
        BiometricDeviceError("Message ID mismatch in response", PyNone, PyNone)
    ELSE Return(SuccessPayload(ans.data))

\* The try block of _send_request from the return of session.post on
SendRequestOutcome(mid, ans) ==
    IF ans.status # "ok" THEN
        BiometricDeviceError("Request failed", PyNone, PyNone)
    ELSE IF ans.json_exc # "none" THEN
        IF IsRequestException(ans.json_exc)
        THEN BiometricDeviceError("Request failed", PyNone, PyNone)
        ELSE BiometricDeviceError("Invalid JSON response", PyNone, PyNone)
    ELSE IF ~HasGet(ans.data) THEN Raise("AttributeError")
    ELSE IF MidMismatch(ans.data, mid) THEN
        BiometricDeviceError("Message ID mismatch in response", PyNone, PyNone)
    ELSE IF IsErrorResult(ans.data) THEN MapError(ans.data)
    ELSE Return(SuccessPayload(ans.data))

\* A retry of the post after a transport-level failure
ResendOnTransportFailure(ans) == ans.status # "ok"

\* Whether _send_request posts again after the answer: there is no loop
\* around the post, and both except clauses raise.
Resend(ans) == FALSE

\* A page payload that tests the truth of start_pos: 0 and "" are left out
PagePayloadIfTruthy(pos) ==
    IF pos # PyNone /\ pos # PyInt(0) /\ pos # PyStr("")
    THEN PyDict([start_pos |-> pos]) ELSE EmptyDict

\* payload of get_user_id_list / get_attend_log
PagePayload(pos) ==
    IF pos # PyNone THEN PyDict([start_pos |-> pos]) ELSE EmptyDict

\* the payload the operation hands to _send_request
OpPayload(o, pos) == IF o \in FetchAllOps THEN PagePayload(pos) ELSE EmptyDict

\* An accumulation that puts the new page in front
ExtendInFront(all, items) == items.v \o all

\* all_user_ids.extend(user_ids): None is not iterable
Extend(all, items) == all \o items.v

\* next_page_pos is None
IsLastPage(next) == next = PyNone

\* A loop that swallows a failed page fetch and returns what it has
FetchAllStepPartial(o, all, out) ==
    LET result == out.v
        items == DictGet(result, ItemsKey(o), PyList(<<>>))
        next == DictGet(result, NextKey(o), PyNone)
    IN  IF out.kind = "raise" \/ ~HasGet(result) \/ items.t # "list"
        THEN [go |-> FALSE, ret |-> Return(PyList(all)), all |-> all,
              next |-> PyNone]
        ELSE [go |-> ~IsLastPage(next),
              ret |-> IF IsLastPage(next)
                      THEN Return(PyList(Extend(all, items))) ELSE NoOutcome,
              all |-> Extend(all, items), next |-> next]

\* A loop that takes a page without items for the last one
FetchAllStepStopsOnEmpty(o, all, out) ==
    LET stop(r) == [go |-> FALSE, ret |-> r, all |-> all, next |-> PyNone]
        result == out.v
        items == DictGet(result, ItemsKey(o), PyList(<<>>))
        next == DictGet(result, NextKey(o), PyNone)
    IN  IF out.kind = "raise" THEN stop(out)
        ELSE IF ~HasGet(result) THEN stop(Raise("AttributeError"))
        ELSE IF items.t # "list" THEN stop(Raise("TypeError"))
        ELSE IF IsLastPage(next) \/ items.v = <<>>
             THEN [go |-> FALSE, ret |-> Return(PyList(Extend(all, items))),
                   all |-> Extend(all, items), next |-> next]
             ELSE [go |-> TRUE, ret |-> NoOutcome,
                   all |-> Extend(all, items), next |-> next]

\* A loop that stops when the device hands back the cursor it was asked with
FetchAllStepStopsOnRepeat(o, all, out) ==
    LET stop(r) == [go |-> FALSE, ret |-> r, all |-> all, next |-> PyNone]
        result == out.v
        items == DictGet(result, ItemsKey(o), PyList(<<>>))
        next == DictGet(result, NextKey(o), PyNone)
    IN  IF out.kind = "raise" THEN stop(out)
        ELSE IF ~HasGet(result) THEN stop(Raise("AttributeError"))
        ELSE IF items.t # "list" THEN stop(Raise("TypeError"))
        ELSE IF IsLastPage(next) \/ next = start_pos
             THEN [go |-> FALSE, ret |-> Return(PyList(Extend(all, items))),
                   all |-> Extend(all, items), next |-> next]
             ELSE [go |-> TRUE, ret |-> NoOutcome,
                   all |-> Extend(all, items), next |-> next]

\* One iteration of the while loop of get_all_user_ids / get_all_attend_logs
\* after the page call has ended with `out`: go is TRUE when the loop goes
\* round again, and ret is how the operation ends when it does not.
FetchAllStep(o, all, out) ==
    LET stop(r) == [go |-> FALSE, ret |-> r, all |-> all, next |-> PyNone]
        result == out.v
        items == DictGet(result, ItemsKey(o), PyList(<<>>))
        next == DictGet(result, NextKey(o), PyNone)
    IN  IF out.kind = "raise" THEN stop(out)
        ELSE IF ~HasGet(result) THEN stop(Raise("AttributeError"))
        ELSE IF items.t # "list" THEN stop(Raise("TypeError"))
        ELSE IF IsLastPage(next)
             THEN [go |-> FALSE, ret |-> Return(PyList(Extend(all, items))),
                   all |-> Extend(all, items), next |-> next]
             ELSE [go |-> TRUE, ret |-> NoOutcome,
                   all |-> Extend(all, items), next |-> next]

\* The page a page call came back with, as the device sent it: the call
\* returned a JSON object whose items are a list (no items when absent).
IsPage(o, out) ==
    /\ out.kind = "return"
    /\ HasGet(out.v)
    /\ DictGet(out.v, ItemsKey(o), PyList(<<>>)).t = "list"

PageItems(o, out) == DictGet(out.v, ItemsKey(o), PyList(<<>>)).v

PageNext(o, out) == DictGet(out.v, NextKey(o), PyNone)

\* payload of query_job_status
QueryJobStatusPayload == PyDict([job_id |-> PyInt(7)])

\* payload of set_security_config called with api_key = key and the
\* defaults for its other arguments
SecurityPayload(key) ==
    LET tls_conf == PyDict([enabled |-> PyStr("no"),
                            validate_certificate |-> PyStr("yes")])
    IN  IF Truthy(key)
        THEN PyDict([enable_http |-> PyStr("yes"), api_key |-> key,
                     tls_conf |-> tls_conf])
        ELSE PyDict([enable_http |-> PyStr("yes"), tls_conf |-> tls_conf])

\* valid_actions of device_control
ValidActions == {"ClearAttendLog", "ClearAdminLog", "ClearUsers",
                 "ClearAdmins", "ClearAllData"}

\* the range each numeric setter accepts
SetterRange(o) ==
    CASE o = "config_attend_log_uploader" -> [lo |-> 5, hi |-> 3600]
      [] o = "set_device_id" -> [lo |-> 1, hi |-> 255]
      [] o = "set_sound_volume" -> [lo |-> 1, hi |-> 10]
      [] o = "set_verify_mode" -> [lo |-> 0, hi |-> 15]

\* A range test that leaves out the upper end
ValidArgumentHalfOpen(o, a) ==
    IF o = "device_control" THEN a.v \in ValidActions
    ELSE SetterRange(o).lo <= a.v /\ a.v < SetterRange(o).hi

\* lo <= x <= hi / action in valid_actions
ValidArgument(o, a) ==
    IF o = "device_control" THEN a.v \in ValidActions
    ELSE SetterRange(o).lo <= a.v /\ a.v <= SetterRange(o).hi

\* The code of an operation before its first _send_request: the setters
\* raise ValueError on an argument they do not accept.
CheckArgument(o, a) ==
    IF o \in SetterOps /\ ~ValidArgument(o, a)
    THEN [ok |-> FALSE, ret |-> Raise("ValueError")]
    ELSE [ok |-> TRUE, ret |-> NoOutcome]

\* payload of a setter called with a
SetterPayload(o, a) ==
    CASE o = "config_attend_log_uploader" ->
            PyDict([target_uri |-> PyStr("http://host/upload"), interval |-> a])
      [] o = "set_device_id" -> PyDict([device_id |-> a])
      [] o = "set_sound_volume" -> PyDict([sound_volume |-> a])
      [] o = "set_verify_mode" -> PyDict([verify_mode |-> a])
      [] o = "device_control" -> PyDict([Action |-> a])

\* a setter after its _send_request has ended with `out`
SetterStep(out) == IF out.kind = "raise" THEN out ELSE Return(PyTrue)

\* the payload of the operation's next _send_request call
RequestPayload(o, pos, key, a) ==
    IF o \in SetterOps THEN SetterPayload(o, a)
    ELSE IF o \in SecurityOps THEN SecurityPayload(key)
    ELSE IF o \in WaitOps THEN QueryJobStatusPayload
    ELSE OpPayload(o, pos)

\* A loop without a timeout test
TimedOutNever(elapsed, limit) == FALSE

\* A timeout test that is one tick late
TimedOutLate(elapsed, limit) == elapsed > limit + 1

\* time.time() - start_time > timeout
TimedOut(elapsed, limit) == elapsed > limit

\* the dict d without its key k
DictWithout(d, k) == PyDict([j \in DOMAIN d.v \ {k} |-> d.v[j]])

\* A poll loop that tests the timeout before it looks at the state
PollStepTimeoutFirst(out, elapsed, limit) ==
    LET stop(r) == [sleep |-> FALSE, ret |-> r]
        status == out.v
        state == DictGet(status, "state", PyNone)
    IN  IF out.kind = "raise" THEN stop(out)
        ELSE IF ~HasGet(status) THEN stop(Raise("AttributeError"))
        ELSE IF TimedOut(elapsed, limit) THEN
            stop(BiometricDeviceError("Enrollment job timed out",
                                      PyNone, PyNone))
        ELSE IF state = PyStr("succeeded") THEN stop(Return(status))
        ELSE IF state = PyStr("failed") THEN
            stop(BiometricDeviceError("Enrollment job failed", PyNone, PyNone))
        ELSE IF state = PyStr("pending") THEN [sleep |-> TRUE, ret |-> NoOutcome]
        ELSE stop(BiometricDeviceError("Unknown job state", PyNone, PyNone))

\* A poll loop that returns the completion data without the state field
PollStepDataOnly(out, elapsed, limit) ==
    LET stop(r) == [sleep |-> FALSE, ret |-> r]
        status == out.v
        state == DictGet(status, "state", PyNone)
    IN  IF out.kind = "raise" THEN stop(out)
        ELSE IF ~HasGet(status) THEN stop(Raise("AttributeError"))
        ELSE IF state = PyStr("succeeded")
             THEN stop(Return(DictWithout(status, "state")))
        ELSE IF state = PyStr("failed") THEN
            stop(BiometricDeviceError("Enrollment job failed", PyNone, PyNone))
        ELSE IF state = PyStr("pending") THEN
            IF TimedOut(elapsed, limit)
            THEN stop(BiometricDeviceError("Enrollment job timed out",
                                           PyNone, PyNone))
            ELSE [sleep |-> TRUE, ret |-> NoOutcome]
        ELSE stop(BiometricDeviceError("Unknown job state", PyNone, PyNone))

\* A poll loop that polls again after a failed job, as if it were pending
PollStepFailedRetries(out, elapsed, limit) ==
    LET stop(r) == [sleep |-> FALSE, ret |-> r]
        status == out.v
        state == DictGet(status, "state", PyNone)
    IN  IF out.kind = "raise" THEN stop(out)
        ELSE IF ~HasGet(status) THEN stop(Raise("AttributeError"))
        ELSE IF state = PyStr("succeeded") THEN stop(Return(status))
        ELSE IF state \in {PyStr("pending"), PyStr("failed")} THEN
            IF TimedOut(elapsed, limit)
            THEN stop(BiometricDeviceError("Enrollment job timed out",
                                           PyNone, PyNone))
            ELSE [sleep |-> TRUE, ret |-> NoOutcome]
        ELSE stop(BiometricDeviceError("Unknown job state", PyNone, PyNone))

\* A poll loop that takes every state it does not know for pending
PollStepUnknownAsPending(out, elapsed, limit) ==
    LET stop(r) == [sleep |-> FALSE, ret |-> r]
        status == out.v
        state == DictGet(status, "state", PyNone)
    IN  IF out.kind = "raise" THEN stop(out)
        ELSE IF ~HasGet(status) THEN stop(Raise("AttributeError"))
        ELSE IF state = PyStr("succeeded") THEN stop(Return(status))
        ELSE IF state = PyStr("failed") THEN
            stop(BiometricDeviceError("Enrollment job failed", PyNone, PyNone))
        ELSE IF TimedOut(elapsed, limit)
             THEN stop(BiometricDeviceError("Enrollment job timed out",
                                            PyNone, PyNone))
             ELSE [sleep |-> TRUE, ret |-> NoOutcome]

\* A poll loop that reports a failed poll as a failed job
PollStepPollFailureAsJobFailed(out, elapsed, limit) ==
    LET stop(r) == [sleep |-> FALSE, ret |-> r]
        status == out.v
        state == DictGet(status, "state", PyNone)
    IN  IF out.kind = "raise" \/ ~HasGet(status)
             \/ state = PyStr("failed") THEN
            stop(BiometricDeviceError("Enrollment job failed", PyNone, PyNone))
        ELSE IF state = PyStr("succeeded") THEN stop(Return(status))
        ELSE IF state = PyStr("pending") THEN
            IF TimedOut(elapsed, limit)
            THEN stop(BiometricDeviceError("Enrollment job timed out",
                                           PyNone, PyNone))
            ELSE [sleep |-> TRUE, ret |-> NoOutcome]
        ELSE stop(BiometricDeviceError("Unknown job state", PyNone, PyNone))

\* One iteration of the while loop of wait_for_enrollment_completion after
\* query_job_status has ended with `out`, `elapsed` after start_time: sleep
\* is TRUE when the loop calls time.sleep and goes round again, and ret is
\* how the operation ends when it does not.
PollStep(out, elapsed, limit) ==
    LET stop(r) == [sleep |-> FALSE, ret |-> r]
        status == out.v
        state == DictGet(status, "state", PyNone)
    IN  IF out.kind = "raise" THEN stop(out)
        ELSE IF ~HasGet(status) THEN stop(Raise("AttributeError"))
        ELSE IF state = PyStr("succeeded") THEN stop(Return(status))
        ELSE IF state = PyStr("failed") THEN
            stop(BiometricDeviceError("Enrollment job failed", PyNone, PyNone))
        ELSE IF state = PyStr("pending") THEN
            IF TimedOut(elapsed, limit)
            THEN stop(BiometricDeviceError("Enrollment job timed out",
                                           PyNone, PyNone))
            ELSE [sleep |-> TRUE, ret |-> NoOutcome]
        ELSE stop(BiometricDeviceError("Unknown job state", PyNone, PyNone))

\* A set_security_config that stores the new key before it knows the outcome
SecurityStepAlways(out, arg, current) ==
    [ret |-> IF out.kind = "raise" THEN out ELSE Return(PyTrue),
     key |-> IF Truthy(arg) THEN arg ELSE current]

\* set_security_config after its _send_request has ended with `out`: key is
\* the client's api_key afterwards
SecurityStep(out, arg, current) ==
    IF out.kind = "raise" THEN [ret |-> out, key |-> current]
    ELSE [ret |-> Return(PyTrue),
          key |-> IF Truthy(arg) THEN arg ELSE current]

\* the arguments a caller passes
WaitTimeouts == {0, 2}
PollIntervals == {1, 2}
NewKeys == {PyNone, PyStr(""), PyStr("k1")}

\* the values on both sides of each end of a setter's range, and actions
\* inside and outside valid_actions
SetterArguments(o) ==
    IF o = "device_control"
    THEN {PyStr(a) : a \in ValidActions \cup {"clearusers", "Reboot"}}
    ELSE {PyInt(n) : n \in {SetterRange(o).lo - 1, SetterRange(o).lo,
                             SetterRange(o).hi, SetterRange(o).hi + 1}}

Arguments(o) == IF o \in SetterOps THEN SetterArguments(o) ELSE {PyNone}

(***************************************************************************)
(* One caller.                                                             *)
(***************************************************************************)
\* no operation has been called: its arguments and locals hold nothing
NoArguments ==
    /\ new_key = PyNone
    /\ argument = PyNone
    /\ now = 0
    /\ start_time = 0
    /\ wait_timeout = 0
    /\ poll_interval = 0
    /\ sleeps = 0
    /\ pendings = 0
    /\ cancelled = FALSE

Init ==
    /\ api_key \in {PyNone, PyStr("k0")}
    /\ timeout = DefaultTimeout
    /\ session_timeout = PyInt(DefaultTimeout)
    /\ op = "none"
    /\ pc = "idle"
    /\ message_id = "none"
    /\ request = NoRequest
    /\ posts = 0
    /\ response = NoAnswer
    /\ outcome = NoOutcome
    /\ all_items = <<>>
    /\ start_pos = PyNone
    /\ sends = 0
    /\ page_items = <<>>
    /\ page_next = PyNone
    /\ ret = NoOutcome
    /\ NoArguments
    /\ flight = <<>>
    /\ wire = {}

\* A wait that sleeps poll_interval before its first poll
CallSleepsFirst(o) ==
    /\ pc = "idle"
    /\ op' = o
    /\ \E a \in Arguments(o) :
          /\ argument' = a
          /\ pc' = IF ~CheckArgument(o, a).ok THEN "done"
                   ELSE IF o \in WaitOps THEN "sleeping" ELSE "call"
          /\ ret' = CheckArgument(o, a).ret
    /\ message_id' = "none"
    /\ request' = NoRequest
    /\ posts' = 0
    /\ response' = NoAnswer
    /\ outcome' = NoOutcome
    /\ all_items' = <<>>
    /\ start_pos' = PyNone
    /\ sends' = 0
    /\ page_items' = <<>>
    /\ page_next' = PyNone
    /\ new_key' \in IF o \in SecurityOps THEN NewKeys ELSE {PyNone}
    /\ now' = 0
    /\ start_time' = now'
    /\ wait_timeout' \in IF o \in WaitOps THEN WaitTimeouts ELSE {0}
    /\ poll_interval' \in IF o \in WaitOps THEN PollIntervals ELSE {0}
    /\ sleeps' = 0
    /\ pendings' = 0
    /\ cancelled' = FALSE
    /\ UNCHANGED <<api_key, timeout, session_timeout, flight, wire>>

\* The caller invokes a public operation.
Call(o) ==
    /\ pc = "idle"
    /\ op' = o
    /\ \E a \in Arguments(o) :
          /\ argument' = a
          /\ pc' = IF CheckArgument(o, a).ok THEN "call" ELSE "done"
          /\ ret' = CheckArgument(o, a).ret
    /\ message_id' = "none"
    /\ request' = NoRequest
    /\ posts' = 0
    /\ response' = NoAnswer
    /\ outcome' = NoOutcome
    /\ all_items' = <<>>
    /\ start_pos' = PyNone
    /\ sends' = 0
    /\ page_items' = <<>>
    /\ page_next' = PyNone
    /\ new_key' \in IF o \in SecurityOps THEN NewKeys ELSE {PyNone}
    /\ now' = 0
    /\ start_time' = now'
    /\ wait_timeout' \in IF o \in WaitOps THEN WaitTimeouts ELSE {0}
    /\ poll_interval' \in IF o \in WaitOps THEN PollIntervals ELSE {0}
    /\ sleeps' = 0
    /\ pendings' = 0
    /\ cancelled' = FALSE
    /\ UNCHANGED <<api_key, timeout, session_timeout, flight, wire>>

\* The operation has returned or raised and the caller has its result: the
\* operation's arguments and locals are gone, the client's fields stay.
ReturnToCaller ==
    /\ pc = "done"
    /\ op' = "none"
    /\ pc' = "idle"
    /\ message_id' = "none"
    /\ request' = NoRequest
    /\ posts' = 0
    /\ response' = NoAnswer
    /\ outcome' = NoOutcome
    /\ all_items' = <<>>
    /\ start_pos' = PyNone
    /\ sends' = 0
    /\ page_items' = <<>>
    /\ page_next' = PyNone
    /\ ret' = NoOutcome
    /\ new_key' = PyNone
    /\ argument' = PyNone
    /\ now' = 0
    /\ start_time' = 0
    /\ wait_timeout' = 0
    /\ poll_interval' = 0
    /\ sleeps' = 0
    /\ pendings' = 0
    /\ cancelled' = FALSE
    /\ UNCHANGED <<api_key, timeout, session_timeout, flight, wire>>

\* _send_request up to and including the call of session.post
SendRequest ==
    /\ pc = "call"
    /\ \E m \in GenerateMessageId :
          /\ message_id' = m
          /\ request' = Post(api_key,
                             RequestData(m, OpCommand(op),
                                         RequestPayload(op, start_pos, new_key,
                                                        argument)),
                             timeout, session_timeout)
    /\ posts' = posts + 1
    /\ sends' = sends + 1
    /\ response' = NoAnswer
    /\ outcome' = NoOutcome
    /\ pc' = "waiting"
    /\ UNCHANGED <<api_key, timeout, session_timeout, op, all_items, start_pos,
                   page_items, page_next, ret, new_key, argument, now, start_time,
                   wait_timeout, poll_interval, sleeps, pendings, cancelled,
                   flight, wire>>

\* the loop of a fetch-all operation after its page call ended with out
FetchAllContinue(out) ==
    LET step == FetchAllStep(op, all_items, out)
    IN  /\ step.go => sends < MaxPages
        /\ all_items' = step.all
        /\ start_pos' = IF step.go THEN step.next ELSE start_pos
        /\ ret' = step.ret
        /\ pc' = IF step.go THEN "call" ELSE "done"
        /\ IF IsPage(op, out)
           THEN /\ page_items' = Append(page_items, PageItems(op, out))
                /\ page_next' = PageNext(op, out)
           ELSE UNCHANGED <<page_items, page_next>>
        /\ UNCHANGED <<api_key, sleeps, pendings>>

\* the poll came back with a status dictionary whose state is "pending"
IsPending(out) ==
    /\ out.kind = "return"
    /\ HasGet(out.v)
    /\ DictGet(out.v, "state", PyNone) = PyStr("pending")

\* A wait loop that sleeps after every poll, the last one included
WaitContinueSleepsAlways(out, t) ==
    LET step == PollStep(out, t - start_time, wait_timeout)
    IN  /\ ret' = step.ret
        /\ pc' = IF step.sleep THEN "sleeping" ELSE "done"
        /\ sleeps' = sleeps + 1
        /\ pendings' = IF IsPending(out) THEN pendings + 1 ELSE pendings
        /\ UNCHANGED <<api_key, all_items, start_pos, page_items, page_next>>

\* the loop of wait_for_enrollment_completion after its poll ended with out
\* at time t: it ends, or it enters time.sleep
WaitContinue(out, t) ==
    LET step == PollStep(out, t - start_time, wait_timeout)
    IN  /\ ret' = step.ret
        /\ pc' = IF step.sleep THEN "sleeping" ELSE "done"
        /\ sleeps' = IF step.sleep THEN sleeps + 1 ELSE sleeps
        /\ pendings' = IF IsPending(out) THEN pendings + 1 ELSE pendings
        /\ UNCHANGED <<api_key, all_items, start_pos, page_items, page_next>>

\* set_security_config after its _send_request ended with out
SecurityContinue(out) ==
    LET step == SecurityStep(out, new_key, api_key)
    IN  /\ ret' = step.ret
        /\ api_key' = step.key
        /\ pc' = "done"
        /\ UNCHANGED <<all_items, start_pos, page_items, page_next, sleeps,
                       pendings>>

\* a setter after its _send_request ended with out
SetterContinue(out) ==
    /\ ret' = SetterStep(out)
    /\ pc' = "done"
    /\ UNCHANGED <<api_key, all_items, start_pos, page_items, page_next,
                   sleeps, pendings>>

\* an operation that returns what _send_request returns
PassThroughContinue(out) ==
    /\ ret' = out
    /\ pc' = "done"
    /\ UNCHANGED <<api_key, all_items, start_pos, page_items, page_next,
                   sleeps, pendings>>

\* session.post comes back, d after it was called: the rest of
\* _send_request, and the operation's code up to its next call of
\* _send_request or time.sleep, or its end.
Receive ==
    /\ pc = "waiting"
    /\ \E ans \in TransportAnswers(request), d \in 0..MaxLatency :
          LET out == SendRequestOutcome(message_id, ans)
          IN  /\ op \notin WaitOps => d = 0
              /\ response' = ans
              /\ now' = now + d
              /\ IF Resend(ans)
                 THEN /\ posts' = posts + 1
                      /\ UNCHANGED <<pc, outcome, all_items, start_pos,
                                     page_items, page_next, ret, api_key,
                                     sleeps, pendings>>
                 ELSE /\ posts' = posts
                      /\ outcome' = out
                      /\ CASE op \in FetchAllOps -> FetchAllContinue(out)
                           [] op \in WaitOps -> WaitContinue(out, now + d)
                           [] op \in SecurityOps -> SecurityContinue(out)
                           [] op \in SetterOps -> SetterContinue(out)
                           [] OTHER -> PassThroughContinue(out)
    /\ UNCHANGED <<timeout, session_timeout, op, message_id, request, sends,
                   new_key, argument, start_time, wait_timeout, poll_interval, cancelled,
                   flight, wire>>

\* time.sleep(poll_interval) returns and the loop goes round
WakeUp ==
    /\ pc = "sleeping"
    /\ now' = now + poll_interval
    /\ pc' = "call"
    /\ UNCHANGED <<api_key, timeout, session_timeout, op, message_id, request,
                   posts, response, outcome, all_items, start_pos, sends,
                   page_items, page_next, ret, new_key, argument, start_time,
                   wait_timeout, poll_interval, sleeps, pendings, cancelled,
                   flight, wire>>

\* The caller of a wait decides to cancel it.  The function takes no
\* cancellation argument and reads no flag: nothing in it depends on this.
Cancel ==
    /\ op \in WaitOps
    /\ pc \in {"call", "waiting", "sleeping"}
    /\ ~cancelled
    /\ cancelled' = TRUE
    /\ UNCHANGED <<api_key, timeout, session_timeout, op, pc, message_id,
                   request, posts, response, outcome, all_items, start_pos,
                   sends, page_items, page_next, ret, new_key, argument, now, start_time,
                   wait_timeout, poll_interval, sleeps, pendings, flight, wire>>

Next ==
    \/ \E o \in Ops : Call(o)
    \/ SendRequest
    \/ Receive
    \/ WakeUp
    \/ Cancel
    \/ ReturnToCaller

Spec == Init /\ [][Next]_vars

(***************************************************************************)
(* Several callers sharing one client.  Each runs _send_request; the ids   *)
(* come from uuid4 with nothing shared between the calls.  The session is  *)
(* the only link between a response and its caller: the mid check exists   *)
(* for the case where it hands a caller a response produced for another    *)
(* request, so the model lets any response on the wire reach any waiting   *)
(* caller.                                                                 *)
(***************************************************************************)
Callers == 1..MaxCalls

callervars == <<api_key, timeout, session_timeout, op, pc, message_id, request,
                posts, response, outcome, all_items, start_pos, sends,
                page_items, page_next, ret, new_key, argument, now, start_time,
                wait_timeout, poll_interval, sleeps, pendings, cancelled>>

IdleCall == [pc |-> "idle", mid |-> "none", outcome |-> NoOutcome, from |-> 0]

InitConc ==
    /\ api_key = PyNone
    /\ timeout = DefaultTimeout
    /\ session_timeout = PyInt(DefaultTimeout)
    /\ op = "none"
    /\ pc = "idle"
    /\ message_id = "none"
    /\ request = NoRequest
    /\ posts = 0
    /\ response = NoAnswer
    /\ outcome = NoOutcome
    /\ all_items = <<>>
    /\ start_pos = PyNone
    /\ sends = 0
    /\ page_items = <<>>
    /\ page_next = PyNone
    /\ ret = NoOutcome
    /\ NoArguments
    /\ flight = [c \in Callers |-> IdleCall]
    /\ wire = {}

\* caller c enters _send_request and posts its request
ConcSend(c) ==
    /\ flight[c].pc \in {"idle", "done"}
    /\ \E m \in GenerateMessageId :
          flight' = [flight EXCEPT ![c] =
                        [pc |-> "waiting", mid |-> m, outcome |-> NoOutcome,
                         from |-> 0]]
    /\ UNCHANGED wire
    /\ UNCHANGED callervars

\* the device answers caller c's request, echoing its mid
DeviceRespond(c) ==
    /\ flight[c].pc = "waiting"
    /\ \A r \in wire : r.for # c
    /\ \E res \in {"Success", "Error"} :
          wire' = wire \cup
              {[for |-> c,
                data |-> PyDict([mid |-> PyStr(flight[c].mid),
                                 result |-> PyStr(res),
                                 payload |-> PyDict([answer_to |-> PyInt(c)])])]}
    /\ UNCHANGED flight
    /\ UNCHANGED callervars

\* session.post of caller c comes back with a response from the wire
ConcReceive(c) ==
    /\ flight[c].pc = "waiting"
    /\ \E r \in wire :
          /\ flight' = [flight EXCEPT ![c] =
                [pc |-> "done", mid |-> flight[c].mid,
                 outcome |-> SendRequestOutcome(flight[c].mid,
                                                Answer("ok", "none", r.data)),
                 from |-> r.for]]
          /\ wire' = wire \ {r}
    /\ UNCHANGED callervars

NextConc ==
    \E c \in Callers :
        \/ ConcSend(c)
        \/ DeviceRespond(c)
        \/ ConcReceive(c)

SpecConc == InitConc /\ [][NextConc]_vars

(***************************************************************************)
(* Properties of one transaction.                                          *)
(***************************************************************************)
\* a transaction has ended and `response` holds the JSON object it decoded
Decoded ==
    /\ outcome.kind # "none"
    /\ response.status = "ok"
    /\ response.json_exc = "none"
    /\ HasGet(response.data)

\* the mid the request carried
RequestMid == request.json.v.mid

\* the decoded response echoes the request's mid
Echoed == Decoded /\ "mid" \in DOMAIN response.data.v
                  /\ response.data.v.mid = RequestMid

\* C1: a decoded response whose mid is not the request's mid (absent mid
\* included) ends the call with the message-id-mismatch error, whatever its
\* result and payload are; nothing is returned.
C1_MidMismatchRejected ==
    (Decoded /\ DictGet(response.data, "mid", PyNone) # RequestMid)
        => outcome = BiometricDeviceError("Message ID mismatch in response",
                                          PyNone, PyNone)

\* a Success response with a payload and another transaction's mid was refused
C1_Witness ==
    /\ Decoded
    /\ DOMAIN response.data.v = {"mid", "result", "payload"}
    /\ response.data.v.mid \in {PyStr(m) : m \in MessageIds} \ {RequestMid}
    /\ response.data.v.result = PyStr("Success")
    /\ response.data.v.payload = PyDict([firmware_version |-> PyStr("1.0")])
    /\ outcome.kind = "raise"
    /\ outcome.msg = "Message ID mismatch in response"

\* C2: a response that echoes the mid, has result "Error" and an error
\* payload with code and arguments ends the call with a BiometricDeviceError
\* carrying that code and those arguments.
C2_DeviceErrorCarriesPayload ==
    (/\ Echoed
     /\ DictGet(response.data, "result", PyNone) = PyStr("Error")
     /\ "payload" \in DOMAIN response.data.v
     /\ HasGet(response.data.v.payload)
     /\ {"code", "arguments"} \subseteq DOMAIN response.data.v.payload.v)
        => /\ outcome.kind = "raise"
           /\ outcome.exc = "BiometricDeviceError"
           /\ outcome.error_code = response.data.v.payload.v.code
           /\ outcome.arguments = response.data.v.payload.v.arguments

\* {"code": "dup_id", "arguments": ["42"]} gave code "dup_id", arguments ["42"]
C2_Witness ==
    /\ Echoed
    /\ DictGet(response.data, "result", PyNone) = PyStr("Error")
    /\ DictGet(response.data, "payload", PyNone) =
           PyDict([code |-> PyStr("dup_id"), arguments |-> PyList(<<"42">>)])
    /\ outcome = BiometricDeviceError("Device error", PyStr("dup_id"),
                                      PyList(<<"42">>))

\* the error payload of an Error response: {} when the field is absent
ErrorPayloadOf(data) == DictGet(data, "payload", EmptyDict)

\* C3: in the mapping of an Error response an absent code becomes
\* "unknown_error" and absent arguments become [], each on its own (the
\* field that is present is kept); with no payload field both defaults apply.
C3_ErrorDefaults ==
    (/\ Echoed
     /\ DictGet(response.data, "result", PyNone) = PyStr("Error")
     /\ HasGet(ErrorPayloadOf(response.data)))
        => LET p == ErrorPayloadOf(response.data).v
           IN  /\ outcome.kind = "raise"
               /\ outcome.exc = "BiometricDeviceError"
               /\ outcome.error_code =
                      IF "code" \in DOMAIN p THEN p.code
                      ELSE PyStr("unknown_error")
               /\ outcome.arguments =
                      IF "arguments" \in DOMAIN p THEN p.arguments
                      ELSE PyList(<<>>)

\* code absent, arguments present: only the code was defaulted
C3_Witness ==
    /\ Echoed
    /\ DictGet(response.data, "result", PyNone) = PyStr("Error")
    /\ DictGet(response.data, "payload", PyNone) = PyDict([arguments |-> PyList(<<"42">>)])
    /\ outcome = BiometricDeviceError("Device error", PyStr("unknown_error"),
                                      PyList(<<"42">>))

\* C4: a response that echoes the mid but has no result field never ends
\* the call with a returned payload.
C4_MissingResultRejected ==
    (Echoed /\ "result" \notin DOMAIN response.data.v)
        => outcome.kind # "return"

\* C5: every transaction ends with a returned payload or with a
\* BiometricDeviceError, and a returned payload is the one the response
\* held, never a default put in its place.
C5_PayloadOrTypedError ==
    outcome.kind # "none"
        => \/ /\ outcome.kind = "raise"
              /\ outcome.exc = "BiometricDeviceError"
           \/ /\ outcome.kind = "return"
              /\ Decoded
              /\ "payload" \in DOMAIN response.data.v
              /\ outcome.v = response.data.v.payload

\* C6: every _send_request call posts exactly once, and a failed post or a
\* failed response ends the operation with the error instead of a resend.
C6_OnePostPerTransaction ==
    /\ posts = sends
    /\ outcome.kind = "raise" => pc = "done" /\ ret = outcome

\* a refused connection ended the call after its only post
C6_Witness ==
    /\ response.status = "ConnectionError"
    /\ outcome = BiometricDeviceError("Request failed", PyNone, PyNone)
    /\ posts = 1
    /\ pc = "done"

\* C7: the request in flight carries the configured timeout, so the
\* transport can end the wait by timing out when the device stays silent.
C7_TimeoutBoundsTransaction ==
    pc = "waiting"
        => /\ request.timeout = PyInt(timeout)
           /\ Answer("Timeout", "none", PyNone) \in TransportAnswers(request)

(***************************************************************************)
(* Properties of the fetch-all operations.                                 *)
(***************************************************************************)
RECURSIVE Flatten(_)
\* the concatenation of a sequence of sequences
Flatten(ss) == IF ss = <<>> THEN <<>> ELSE Head(ss) \o Flatten(Tail(ss))

\* C9: when a fetch-all operation returns, the last page fetched is the
\* first one without a next cursor, the value returned is the concatenation
\* of the items of the pages fetched, in order, and there was one page fetch
\* per page; a page without a next cursor is never followed by a fetch.
C9_FetchAllConcatenates ==
    op \in FetchAllOps
        => /\ (pc = "done" /\ ret.kind = "return")
                => /\ ret.v = PyList(Flatten(page_items))
                   /\ sends = Len(page_items)
                   /\ posts = Len(page_items)
                   /\ page_next = PyNone
           /\ (page_items # <<>> /\ page_next = PyNone)
                => pc = "done" /\ ret.kind = "return"
           /\ (page_items # <<>> /\ pc # "done") => page_next # PyNone

\* pages [(items=[1,2], next=5), (items=[3], next=None)] gave [1,2,3] in
\* exactly two fetches
C9_Witness ==
    /\ op \in FetchAllOps
    /\ pc = "done"
    /\ page_items = << <<1, 2>>, <<3>> >>
    /\ start_pos = PyInt(5)
    /\ page_next = PyNone
    /\ ret = Return(PyList(<<1, 2, 3>>))
    /\ sends = 2

\* C10: a failed page fetch ends the fetch-all operation with that failure:
\* no further fetch follows and the items of earlier pages are not returned.
C10_FetchFailurePropagates ==
    (op \in FetchAllOps /\ outcome.kind = "raise")
        => /\ pc = "done"
           /\ ret = outcome
           /\ sends = Len(page_items) + 1

\* the second page fetch failed after a first page with items
C10_Witness ==
    /\ op \in FetchAllOps
    /\ sends = 2
    /\ all_items = <<1, 2>>
    /\ outcome.kind = "raise"
    /\ ret = outcome
    /\ pc = "done"

\* C19: the mids are compared before the result is looked at: a decoded
\* response with another mid and result "Error" gives the message-id-mismatch
\* error, never a device error made from its payload.
C19_CorrelationBeforeResult ==
    (/\ Decoded
     /\ DictGet(response.data, "mid", PyNone) # RequestMid
     /\ DictGet(response.data, "result", PyNone) = PyStr("Error"))
        => /\ outcome.kind = "raise"
           /\ outcome.msg = "Message ID mismatch in response"
           /\ outcome.error_code = PyNone
           /\ outcome.arguments = PyNone

\* an Error response for another mid, with a full error payload, was refused
C19_Witness ==
    /\ Decoded
    /\ DictGet(response.data, "mid", PyNone)
           \in {PyStr(m) : m \in MessageIds} \ {RequestMid}
    /\ DictGet(response.data, "result", PyNone) = PyStr("Error")
    /\ DictGet(response.data, "payload", PyNone) =
           PyDict([code |-> PyStr("dup_id"), arguments |-> PyList(<<"42">>)])
    /\ outcome.msg = "Message ID mismatch in response"

\* the payload of the request in flight
RequestPayloadSent == request.json.v.payload

\* C20: the first page request of a fetch-all operation has no start_pos,
\* and every later one carries the next-position value of the page before
\* it, unchanged; 0 and "" are sent like any other value and do not end the
\* iteration.
C20_CursorThreading ==
    op \in FetchAllOps
        => /\ pc = "waiting"
                => RequestPayloadSent =
                      IF page_items = <<>> THEN EmptyDict
                      ELSE PyDict([start_pos |-> page_next])
           /\ (page_items # <<>> /\ page_next # PyNone /\ pc = "done")
                => /\ ret.kind = "raise"
                   /\ sends = Len(page_items) + 1
                   /\ RequestPayloadSent = PyDict([start_pos |-> page_next])

\* the second page request carries the 0 the first page gave as its cursor
C20_Witness ==
    /\ op \in FetchAllOps
    /\ pc = "waiting"
    /\ sends = 2
    /\ Len(page_items) = 1
    /\ page_next = PyInt(0)
    /\ RequestPayloadSent = PyDict([start_pos |-> PyInt(0)])

\* C21: a page with an empty or absent item list and a next cursor does not
\* end a fetch-all operation, which goes on to fetch with that cursor; the
\* iteration ends on the first page without a next cursor and on no other.
C21_EmptyPageContinues ==
    (op \in FetchAllOps /\ IsPage(op, outcome))
        => /\ PageNext(op, outcome) # PyNone
                => /\ pc = "call"
                   /\ ret = NoOutcome
                   /\ start_pos = PageNext(op, outcome)
           /\ PageNext(op, outcome) = PyNone
                => /\ pc = "done"
                   /\ ret.kind = "return"

\* two pages without items, the second with no item list at all and the
\* cursor 0: the loop is about to fetch a third page from 0
C21_Witness ==
    /\ op = "get_all_user_ids"
    /\ pc = "call"
    /\ sends = 2
    /\ page_items = << <<>>, <<>> >>
    /\ outcome = Return(PyDict([next_page_pos |-> PyInt(0)]))
    /\ start_pos = PyInt(0)

\* C22: a fetch-all operation ends when a page comes without a next cursor
\* or a page fetch fails, and in no other way: however many pages it has
\* fetched, and also when the device repeats the cursor it was asked with,
\* a page with a cursor is followed by another fetch, so the operation does
\* not return while every page has a cursor.
C22_EndsOnlyOnLastPageOrFailure ==
    op \in FetchAllOps
        => /\ pc = "done"
                => \/ ret.kind = "raise"
                   \/ ret.kind = "return" /\ page_next = PyNone
           /\ (outcome.kind = "raise" \/ (IsPage(op, outcome)
                                           /\ PageNext(op, outcome) = PyNone))
                => pc = "done"
           /\ (pc = "call" /\ sends >= 1)
                => /\ IsPage(op, outcome)
                   /\ start_pos = page_next
                   /\ page_next # PyNone
                   /\ Len(page_items) = sends
                   /\ ENABLED SendRequest
           /\ pc = "waiting" => ret = NoOutcome

\* asked with cursor 5 the device answered with cursor 5 again: the loop is
\* about to ask with 5 once more
C22_Witness ==
    /\ op \in FetchAllOps
    /\ pc = "call"
    /\ sends = 2
    /\ RequestPayloadSent = PyDict([start_pos |-> PyInt(5)])
    /\ page_next = PyInt(5)
    /\ start_pos = PyInt(5)
    /\ ret = NoOutcome

(***************************************************************************)
(* Properties of wait_for_enrollment_completion.                           *)
(***************************************************************************)
\* the status dictionary the last poll came back with holds this state
Observed(state) ==
    /\ op \in WaitOps
    /\ outcome.kind = "return"
    /\ HasGet(outcome.v)
    /\ DictGet(outcome.v, "state", PyNone) = state

\* time.time() - start_time
Elapsed == now - start_time

\* C11: a wait that returns after n-1 pending answers made exactly n polls
\* and n-1 sleeps; there is one sleep between two consecutive polls and none
\* after the last, and each sleep lasts poll_interval.
C11_PollsAndSleeps ==
    op \in WaitOps
        => /\ (pc = "done" /\ ret.kind = "return")
                => /\ sends = pendings + 1
                   /\ posts = sends
                   /\ sleeps = pendings
           /\ pc \in {"call", "sleeping"} => sleeps = sends
           /\ pc \in {"waiting", "done"} => sleeps = sends - 1
           /\ pc # "sleeping"
                => /\ Elapsed >= sleeps * poll_interval
                   /\ Elapsed <= sleeps * poll_interval + sends * MaxLatency

\* Pending, Pending, Succeeded ended after exactly 3 polls and 2 sleeps
C11_Witness ==
    /\ op \in WaitOps
    /\ pc = "done"
    /\ ret.kind = "return"
    /\ Observed(PyStr("succeeded"))
    /\ pendings = 2
    /\ sends = 3
    /\ sleeps = 2

\* C12 as claimed: the value returned is the completion data alone, {"x": 1}
\* for a final status {"state": "succeeded", "x": 1}.
C12_ReturnsDataOnly ==
    (op \in WaitOps /\ pc = "done" /\ ret.kind = "return")
        => ret.v = DictWithout(outcome.v, "state")

\* C12 as amended: the value returned is the whole status dictionary of the
\* poll that reported "succeeded", its state field included, as that poll's
\* response carried it.
C12_ReturnsFinalStatus ==
    (op \in WaitOps /\ pc = "done" /\ ret.kind = "return")
        => /\ Echoed
           /\ ret.v = DictGet(response.data, "payload", EmptyDict)
           /\ DictGet(ret.v, "state", PyNone) = PyStr("succeeded")

\* after a pending poll, {"state": "succeeded", "x": 1} came back whole
C12_Witness ==
    /\ op \in WaitOps
    /\ pc = "done"
    /\ pendings = 1
    /\ ret = Return(PyDict([state |-> PyStr("succeeded"), x |-> PyInt(1)]))

\* C13: a pending answer seen more than `timeout` after the start ends the
\* wait with the timed-out error: no sleep is started and no poll follows.
C13_PendingPastTimeout ==
    (Observed(PyStr("pending")) /\ pc \in {"sleeping", "done"}
        /\ Elapsed > wait_timeout)
        => /\ pc = "done"
           /\ ret = BiometricDeviceError("Enrollment job timed out",
                                         PyNone, PyNone)
           /\ sleeps = sends - 1

\* a job that stayed pending over three polls timed out at the third
C13_Witness ==
    /\ Observed(PyStr("pending"))
    /\ pc = "done"
    /\ pendings = 3
    /\ sends = 3
    /\ ret.kind = "raise"
    /\ ret.msg = "Enrollment job timed out"

\* C14: the poll that reports "failed" ends the wait with the job-failed
\* error and the poll that reports "succeeded" makes it return; neither is
\* followed by a sleep or a poll.
C14_TerminalStates ==
    /\ Observed(PyStr("failed"))
          => /\ pc = "done"
             /\ ret = BiometricDeviceError("Enrollment job failed",
                                           PyNone, PyNone)
             /\ sleeps = sends - 1
    /\ Observed(PyStr("succeeded"))
          => /\ pc = "done"
             /\ ret.kind = "return"
             /\ sleeps = sends - 1

\* the first poll reported "failed": one poll, no sleep
C14_Witness ==
    /\ Observed(PyStr("failed"))
    /\ sends = 1
    /\ sleeps = 0
    /\ pc = "done"
    /\ ret.msg = "Enrollment job failed"

KnownStates == {PyStr("pending"), PyStr("succeeded"), PyStr("failed")}

\* C15: a poll whose status has a state outside pending, succeeded and
\* failed, or no state at all, ends the wait with the unknown-state error at
\* that poll: no sleep, no further poll, no other error.
C15_UnknownState ==
    (/\ op \in WaitOps
     /\ outcome.kind = "return"
     /\ HasGet(outcome.v)
     /\ DictGet(outcome.v, "state", PyNone) \notin KnownStates)
        => /\ pc = "done"
           /\ ret = BiometricDeviceError("Unknown job state", PyNone, PyNone)
           /\ sleeps = sends - 1

\* a status without a state field, after one pending poll
C15_Witness ==
    /\ op \in WaitOps
    /\ outcome = Return(PyDict([x |-> PyInt(1)]))
    /\ pendings = 1
    /\ sends = 2
    /\ pc = "done"
    /\ ret.msg = "Unknown job state"

\* C16: once the caller has cancelled the wait, no further poll is issued.
C16_NoPollAfterCancel ==
    [][(cancelled /\ cancelled') => sends' = sends]_vars

\* C17: a poll whose own transaction fails ends the wait with that same
\* failure: no sleep, no further poll, no other error in its place.
C17_PollFailurePropagates ==
    (op \in WaitOps /\ outcome.kind = "raise")
        => /\ pc = "done"
           /\ ret = outcome
           /\ sleeps = sends - 1

\* the second poll came back with a device error, which the wait raised
C17_Witness ==
    /\ op \in WaitOps
    /\ sends = 2
    /\ outcome = BiometricDeviceError("Device error", PyStr("dup_id"),
                                      PyList(<<"42">>))
    /\ ret = outcome
    /\ pc = "done"

\* C23: the first poll is sent at once, before any sleep and before any
\* timeout test, whatever the timeout, 0 included; a sleep is started only
\* after a pending answer seen with elapsed time not greater than timeout.
C23_PollFirstCheckBeforeSleep ==
    op \in WaitOps
        => /\ sends = 0
                => /\ pc = "call"
                   /\ ENABLED SendRequest
                   /\ sleeps = 0
                   /\ ret = NoOutcome
                   /\ now = start_time
           /\ (sends = 1 /\ pc = "waiting")
                => /\ sleeps = 0
                   /\ now = start_time
           /\ pc = "sleeping"
                => /\ Observed(PyStr("pending"))
                   /\ Elapsed <= wait_timeout

\* with timeout 0 the first poll was sent and answered pending at elapsed
\* time 0: the wait sleeps
C23_Witness ==
    /\ op \in WaitOps
    /\ wait_timeout = 0
    /\ sends = 1
    /\ Observed(PyStr("pending"))
    /\ Elapsed = 0
    /\ pc = "sleeping"

\* C24: the timed-out error is raised only right after a pending answer; a
\* poll that answers succeeded or failed when more than timeout has elapsed
\* still gives the status or the job-failed error.
C24_TimeoutOnlyOnPending ==
    op \in WaitOps
        => /\ ret = BiometricDeviceError("Enrollment job timed out",
                                         PyNone, PyNone)
                => /\ Observed(PyStr("pending"))
                   /\ Elapsed > wait_timeout
           /\ (Observed(PyStr("succeeded")) /\ Elapsed > wait_timeout)
                => ret = Return(outcome.v)
           /\ (Observed(PyStr("failed")) /\ Elapsed > wait_timeout)
                => ret = BiometricDeviceError("Enrollment job failed",
                                              PyNone, PyNone)

\* timeout 2, a poll every 2: the third poll, at 4, answered succeeded
C24_Witness ==
    /\ Observed(PyStr("succeeded"))
    /\ wait_timeout = 2
    /\ Elapsed = 4
    /\ pendings = 2
    /\ pc = "done"
    /\ ret.kind = "return"

\* the number of polls a wait can make: a poll is followed by a sleep only
\* while the time elapsed is within timeout, and each sleep adds
\* poll_interval
MostPolls == (wait_timeout \div poll_interval) + 2

\* C25: a wait whose polls all come back ends after finitely many polls, at
\* most timeout / poll_interval + 2 of them, also on a job that stays
\* pending; between two polls nothing holds it but its sleep, and it ends
\* with a status, an error of its own or the failure of a poll.
C25_WaitTerminates ==
    op \in WaitOps
        => /\ sends <= MostPolls
           /\ sleeps < MostPolls
           /\ pc = "call" => ENABLED SendRequest
           /\ pc = "sleeping" => ENABLED WakeUp
           /\ pc = "done" => ret.kind \in {"return", "raise"}

\* the job stayed pending: with timeout 2 and a poll every 1 the wait made
\* all of its 4 polls and ended with the timed-out error
C25_Witness ==
    /\ op \in WaitOps
    /\ wait_timeout = 2
    /\ poll_interval = 1
    /\ pendings = 4
    /\ sends = 4
    /\ pc = "done"
    /\ ret.msg = "Enrollment job timed out"

(***************************************************************************)
(* Properties of the client's fields.                                      *)
(***************************************************************************)
\* C18: api_key changes only when a SetSecurityConfig transaction, sent
\* under the old key, has succeeded with a non-empty new key, and then it
\* becomes that key; when the transaction fails it keeps its value; no step
\* changes another field of the client.
C18_ApiKeyUpdatePoint ==
    [][/\ api_key' # api_key
            => /\ op \in SecurityOps
               /\ pc = "waiting"
               /\ request.url = GetBaseUrl(api_key)
               /\ outcome'.kind = "return"
               /\ Truthy(new_key)
               /\ api_key' = new_key
       /\ (op \in SecurityOps /\ pc = "waiting" /\ outcome'.kind = "return"
             /\ Truthy(new_key))
            => api_key' = new_key
       /\ timeout' = timeout
       /\ session_timeout' = session_timeout]_vars

\* the key was k0, the request went out under k0 and the key is now k1
C18_Witness ==
    /\ op \in SecurityOps
    /\ pc = "done"
    /\ ret = Return(PyTrue)
    /\ request.url.api_key = PyStr("k0")
    /\ DictGet(request.json.v.payload, "api_key", PyNone) = PyStr("k1")
    /\ api_key = PyStr("k1")

(***************************************************************************)
(* Properties of the range-checked setters.                                *)
(***************************************************************************)
\* the arguments the setters are documented to accept
Accepted ==
    CASE op = "set_device_id" -> 1 <= argument.v /\ argument.v <= 255
      [] op = "set_sound_volume" -> 1 <= argument.v /\ argument.v <= 10
      [] op = "set_verify_mode" -> 0 <= argument.v /\ argument.v <= 15
      [] op = "config_attend_log_uploader" ->
            5 <= argument.v /\ argument.v <= 3600
      [] op = "device_control" ->
            argument.v \in {"ClearAttendLog", "ClearAdminLog", "ClearUsers",
                            "ClearAdmins", "ClearAllData"}

\* C26: a setter called with an argument outside its range (1..255 for
\* set_device_id, 1..10 for set_sound_volume, 0..15 for set_verify_mode,
\* 5..3600 for the uploader's interval, the five action names for
\* device_control) raises ValueError and sends nothing; called with an
\* argument inside it, it sends exactly one request, which carries the
\* argument, and does not raise ValueError.
C26_SettersValidateFirst ==
    op \in SetterOps
        => /\ ~Accepted
                => /\ pc = "done"
                   /\ ret = Raise("ValueError")
                   /\ posts = 0
                   /\ sends = 0
                   /\ request = NoRequest
           /\ Accepted
                => /\ ret # Raise("ValueError")
                   /\ pc = "call" => posts = 0
                   /\ pc \in {"waiting", "done"}
                        => /\ posts = 1
                           /\ sends = 1
                           /\ request.json.v.cmd = PyStr(OpCommand(op))
                           /\ argument \in {RequestPayloadSent.v[k]
                                               : k \in DOMAIN RequestPayloadSent.v}

\* set_device_id(255), the upper end of the range, sent one request and
\* returned True
C26_Witness ==
    /\ op = "set_device_id"
    /\ argument = PyInt(255)
    /\ pc = "done"
    /\ posts = 1
    /\ RequestPayloadSent = PyDict([device_id |-> PyInt(255)])
    /\ ret = Return(PyTrue)

(***************************************************************************)
(* Properties of concurrent transactions.                                  *)
(***************************************************************************)
\* C8: no two transactions in flight carry the same mid, and a payload
\* returned to a caller comes from the response to that caller's request.
C8_UniqueIdsOwnPayload ==
    /\ \A c, d \in Callers :
          (c # d /\ flight[c].pc = "waiting" /\ flight[d].pc = "waiting")
              => flight[c].mid # flight[d].mid
    /\ \A c \in Callers :
          (flight[c].pc = "done" /\ flight[c].outcome.kind = "return")
              => flight[c].from = c

====
